---- MODULE Spec2Model ----
(***************************************************************************)
(* A model of the snap dashboard client:                                   *)
(*   - client/lib/api.ts: the shared axios client, its request and         *)
(*     response interceptors, and checkApiHealth;                          *)
(*   - client/components/dashboard/Promptbar.tsx: AnimatedPlaceholder;     *)
(*   - client/components/dashboard/Textarea.tsx: the ingest form.          *)
(* Strings the code searches or trims are sequences of tokens, so that     *)
(* replace, includes and trim are computed rather than assumed.            *)
(***************************************************************************)
EXTENDS Integers, Sequences, FiniteSets, TLC

VARIABLES
    env,        \* process.env: NEXT_PUBLIC_API_BASE_URL, NEXT_PUBLIC_VECTORSNAP_API_KEY
    defaults,   \* apiClient.defaults: baseURL and headers of the shared instance
    calls,      \* the calls made through apiClient, one record per caller slot
    pathname,   \* usePathname() of Promptbar
    query,      \* Promptbar's query state
    index,      \* AnimatedPlaceholder's index state
    interval,   \* the interval set by AnimatedPlaceholder's effect, with the length it closed over
    text,       \* Textarea's text state
    metadata,   \* Textarea's metadata rows
    pending,    \* ingest requests awaited by handleSubmit
    alert       \* the alert() raised by the last handleSubmit step, if any

vars == <<env, defaults, calls, pathname, query, index, interval,
          text, metadata, pending, alert>>

apiVars  == <<env, defaults, calls>>
barVars  == <<pathname, query, index, interval>>
formVars == <<text, metadata, pending, alert>>

(***************************************************************************)
(* Bounds of the model.                                                    *)
(***************************************************************************)
MaxCalls   == 2    \* caller slots with a call through apiClient at the same time
MaxUrlLen  == 6    \* tokens of an overriding base URL (origin + path segments)
MaxPath    == 2    \* segments of a dashboard pathname
MaxQuery   == 2    \* characters typed into the prompt bar
MaxText    == 1    \* characters of the ingest text
MaxRows    == 2    \* metadata rows of the ingest form
MaxPending == 1    \* ingest requests in flight

Calls == 1..MaxCalls

(***************************************************************************)
(* client/lib/api.ts                                                       *)
(***************************************************************************)

\* An environment variable: unset (undefined) or set to a string.
Unset(empty) == [defined |-> FALSE, value |-> empty]
SetTo(v)     == [defined |-> TRUE, value |-> v]

\* JavaScript truthiness of a string-or-undefined value.
Truthy(e, empty) == e.defined /\ e.value # empty

DefaultBaseUrl == <<"http://localhost:8000", "/api", "/v1">>

\* const API_BASE_URL = process.env.NEXT_PUBLIC_API_BASE_URL || 'http://localhost:8000/api/v1'
API_BASE_URL ==
    IF Truthy(env.baseUrl, <<>>) THEN env.baseUrl.value ELSE DefaultBaseUrl

\* const API_KEY = process.env.NEXT_PUBLIC_VECTORSNAP_API_KEY
API_KEY == env.apiKey

\* The search string of checkApiHealth's replace: '/api/v1'.
VersionedPath == <<"/api", "/v1">>

\* The positions at which pat occurs in s.
Occurrences(s, pat) ==
    { i \in 1..(Len(s) - Len(pat) + 1) : SubSeq(s, i, i + Len(pat) - 1) = pat }

Min(S) == CHOOSE x \in S : \A y \in S : x <= y

\* String.prototype.replace with a string pattern: the first occurrence only.
Replace(s, pat, rep) ==
    IF Occurrences(s, pat) = {} THEN s
    ELSE LET i == Min(Occurrences(s, pat))
         IN  SubSeq(s, 1, i - 1) \o rep \o SubSeq(s, i + Len(pat), Len(s))

\* A header of a request: absent, or present with a value.
Absent     == [present |-> FALSE, value |-> ""]
Header(v)  == [present |-> TRUE, value |-> v]

\* axios.create({ baseURL, headers, timeout, withCredentials })
timeout == 10000

CreateDefaults ==
    [ baseURL |-> API_BASE_URL,
      headers |-> [ contentType |-> Header("application/json"),
                    accept      |-> Header("application/json"),
                    xApiKey     |-> Absent ] ]

\* What a caller passes to a call: the url, a baseURL override or none, and
\* possibly an X-API-Key header of its own.
CallConfig(url, base, key) == [url |-> url, baseURL |-> base, xApiKey |-> key]

NoOverride    == [given |-> FALSE, value |-> <<>>]
Override(url) == [given |-> TRUE, value |-> url]

\* The config of one request: the instance defaults under the call's config,
\* as a new object.
MergeConfig(d, cfg) ==
    [ baseURL |-> IF cfg.baseURL.given THEN cfg.baseURL.value ELSE d.baseURL,
      url     |-> cfg.url,
      headers |-> [d.headers EXCEPT
                     !.xApiKey = IF cfg.xApiKey.present THEN cfg.xApiKey ELSE @] ]

\* Variant with a fault: the header is set without the check of API_KEY.
RequestInterceptorUnguarded(config) ==
    [config EXCEPT !.headers.xApiKey = Header(API_KEY.value)]

\* apiClient.interceptors.request.use((config) => { ... })
RequestInterceptor(config) ==
    IF Truthy(API_KEY, "")
    THEN [config EXCEPT !.headers.xApiKey = Header(API_KEY.value)]
    ELSE config

\* Variant with a fault: the call's baseURL is written to the shared instance.
RequestWritingDefaults(d, cfg) ==
    [ defaults |-> [d EXCEPT !.baseURL = MergeConfig(d, cfg).baseURL],
      config   |-> RequestInterceptor(MergeConfig(d, cfg)) ]

\* One request through the instance: what is dispatched, and the instance's
\* defaults afterwards.
Request(d, cfg) ==
    [ defaults |-> d,
      config   |-> RequestInterceptor(MergeConfig(d, cfg)) ]

\* The address a dispatched request goes to.
Target(config) == config.baseURL \o <<config.url>>

\* Response bodies, as the client sees them after axios's JSON handling:
\* null, a string (a body that is not JSON), or an object.
NullBody   == [kind |-> "null",   hasStatus |-> FALSE, status |-> "", extra |-> FALSE]
StringBody == [kind |-> "string", hasStatus |-> FALSE, status |-> "", extra |-> FALSE]
ObjectBody(hasStatus, status, extra) ==
    [kind |-> "object", hasStatus |-> hasStatus, status |-> status, extra |-> extra]

Bodies ==
    {NullBody, StringBody}
    \cup { ObjectBody(FALSE, "", x) : x \in BOOLEAN }
    \cup { ObjectBody(TRUE, s, x) : s \in {"ok", "down"}, x \in BOOLEAN }

Statuses == {200, 401, 429, 500}

NoResponse == [present |-> FALSE, status |-> 0, data |-> NullBody]
HttpResponse(status, data) == [present |-> TRUE, status |-> status, data |-> data]

NoError == [present |-> FALSE, response |-> NoResponse, code |-> ""]
AxiosError(response, code) == [present |-> TRUE, response |-> response, code |-> code]

\* console.error of the response interceptor.
NoLog == [msg |-> "", data |-> NullBody]
ConsoleError(msg, data) == [msg |-> msg, data |-> data]

\* The error handler's branches: what it logs for an error.
ErrorLog(error) ==
    IF error.response.present
    THEN IF error.response.status = 401
         THEN ConsoleError("Unauthorized: Invalid or missing API key", NullBody)
         ELSE IF error.response.status = 429
         THEN ConsoleError("Rate limit exceeded", NullBody)
         ELSE ConsoleError("API Error:", error.response.data)
    ELSE IF error.code = "ERR_NETWORK"
         THEN ConsoleError("Network Error: Cannot reach backend. Is the API running?", NullBody)
         ELSE NoLog

\* The outcome of the interceptor chain for one request.
NoSettle == [kind |-> "none", response |-> NoResponse, error |-> NoError]
Fulfilled(response) == [kind |-> "fulfilled", response |-> response, error |-> NoError]
Rejected(error)     == [kind |-> "rejected", response |-> NoResponse, error |-> error]

\* apiClient.interceptors.response.use((response) => response, ...)
OnFulfilled(response) == Fulfilled(response)

\* Variant with a fault: a 401 is rejected with a new error that has lost the response.
OnRejectedReplacing(error) ==
    IF error.response.present /\ error.response.status = 401
    THEN Rejected(AxiosError(NoResponse, "ERR_UNAUTHORIZED"))
    ELSE Rejected(error)

\* apiClient.interceptors.response.use(..., (error) => { ...; return Promise.reject(error) })
OnRejected(error) == Rejected(error)

\* checkApiHealth's try/catch around the awaited get.
NoHealth == [returned |-> FALSE, value |-> FALSE, threw |-> FALSE]
Returns(b) == [returned |-> TRUE, value |-> b, threw |-> FALSE]

\* response.data.status === 'ok': reading .status of null throws, of a string
\* gives undefined.
StatusIsOk(data) ==
    [ throws |-> data.kind = "null",
      value  |-> data.kind = "object" /\ data.hasStatus /\ data.status = "ok" ]

\* Variant with a fault: no try/catch, and the status field is not compared with 'ok'.
CheckApiHealthResultUncaught(settle) ==
    IF settle.kind = "fulfilled"
    THEN IF StatusIsOk(settle.response.data).throws
         THEN [returned |-> FALSE, value |-> FALSE, threw |-> TRUE]
         ELSE Returns(settle.response.data.hasStatus)
    ELSE [returned |-> FALSE, value |-> FALSE, threw |-> TRUE]

CheckApiHealthResult(settle) ==
    IF settle.kind = "fulfilled"
    THEN IF StatusIsOk(settle.response.data).throws
         THEN Returns(FALSE)
         ELSE Returns(StatusIsOk(settle.response.data).value)
    ELSE Returns(FALSE)

\* checkApiHealth's call config: baseURL: API_BASE_URL.replace('/api/v1', '')
CheckApiHealthConfig ==
    CallConfig("/health", Override(Replace(API_BASE_URL, VersionedPath, <<>>)), Absent)

IdleCall ==
    [ pc |-> "idle", kind |-> "none", callerKey |-> Absent,
      config |-> MergeConfig(CreateDefaults, CallConfig("", NoOverride, Absent)),
      sent |-> 0, elapsed |-> 0, raised |-> NoError, settle |-> NoSettle,
      logged |-> NoLog, health |-> NoHealth ]


\* A call is dispatched exactly once when it is made.
Dispatch(call, kind, cfg, config) ==
    [call EXCEPT !.pc = "inflight", !.kind = kind, !.callerKey = cfg.xApiKey,
                 !.config = config, !.sent = @ + 1, !.elapsed = 0]

\* The promise of a call settles: the request's timer is cleared, the response
\* interceptor has run and, for the health probe, checkApiHealth's try/catch
\* after it.
Settle(call, settle) ==
    [call EXCEPT !.pc = "settled", !.settle = settle, !.elapsed = 0,
                 !.health = IF call.kind = "health"
                            THEN CheckApiHealthResult(settle) ELSE NoHealth]

\* A request succeeds: the success handler passes the response through.
SucceedCall(call, response) == Settle(call, OnFulfilled(response))

\* Variant with a fault: the error handler sends the request again after a 429.
FailCallRetrying(call, error) ==
    IF error.response.present /\ error.response.status = 429
    THEN [call EXCEPT !.logged = ErrorLog(error), !.sent = @ + 1, !.elapsed = 0]
    ELSE Settle([call EXCEPT !.raised = error, !.logged = ErrorLog(error)],
                OnRejected(error))

\* A request fails with error: the error handler logs and rejects.
FailCall(call, error) ==
    Settle([call EXCEPT !.raised = error, !.logged = ErrorLog(error)],
           OnRejected(error))

\* validateStatus of axios: 2xx resolves, anything else rejects.
ValidateStatus(status) == status >= 200 /\ status < 300

\* The error axios raises for a response outside 2xx.
BadStatusCode(status) == IF status >= 500 THEN "ERR_BAD_RESPONSE" ELSE "ERR_BAD_REQUEST"

\* The model's clock step: the timeout is reached in two ticks.
TickMs == timeout \div 2

FeatureUrls == {"/ingest", "/search"}
CallerKeys  == {Absent, Header("caller-key")}

\* A feature call site calls apiClient.post/get(url, ...).
StartFeature(c) ==
    /\ calls[c].pc = "idle"
    /\ \E url \in FeatureUrls, key \in CallerKeys :
         LET cfg == CallConfig(url, NoOverride, key)
             req == Request(defaults, cfg)
         IN  /\ defaults' = req.defaults
             /\ calls' = [calls EXCEPT ![c] = Dispatch(@, "feature", cfg, req.config)]
    /\ UNCHANGED <<env, barVars, formVars>>

\* checkApiHealth() is called: apiClient.get('/health', { baseURL: ... }).
StartHealth(c) ==
    /\ calls[c].pc = "idle"
    /\ LET cfg == CheckApiHealthConfig
           req == Request(defaults, cfg)
       IN  /\ defaults' = req.defaults
           /\ calls' = [calls EXCEPT ![c] = Dispatch(@, "health", cfg, req.config)]
    /\ UNCHANGED <<env, barVars, formVars>>

\* Time passes for a request that has no response yet.
Tick(c) ==
    /\ calls[c].pc = "inflight"
    /\ calls[c].elapsed < timeout
    /\ calls' = [calls EXCEPT ![c].elapsed = @ + TickMs]
    /\ UNCHANGED <<env, defaults, barVars, formVars>>

\* The backend answers within the timeout.
Respond(c, statuses, bodies) ==
    /\ calls[c].pc = "inflight"
    /\ calls[c].elapsed < timeout
    /\ \E status \in statuses, data \in bodies :
         LET response == HttpResponse(status, data)
         IN  calls' = [calls EXCEPT ![c] =
                 IF ValidateStatus(status)
                 THEN SucceedCall(@, response)
                 ELSE FailCall(@, AxiosError(response, BadStatusCode(status)))]
    /\ UNCHANGED <<env, defaults, barVars, formVars>>

\* The backend cannot be reached: no response, code ERR_NETWORK.
NetworkFail(c) ==
    /\ calls[c].pc = "inflight"
    /\ calls[c].elapsed < timeout
    /\ calls' = [calls EXCEPT ![c] = FailCall(@, AxiosError(NoResponse, "ERR_NETWORK"))]
    /\ UNCHANGED <<env, defaults, barVars, formVars>>

\* timeout: 10000 -- axios aborts the request: no response, code ECONNABORTED.
TimeoutAbort(c) ==
    /\ calls[c].pc = "inflight"
    /\ calls[c].elapsed >= timeout
    /\ calls' = [calls EXCEPT ![c] = FailCall(@, AxiosError(NoResponse, "ECONNABORTED"))]
    /\ UNCHANGED <<env, defaults, barVars, formVars>>

\* The caller has its result; the slot is free for the next call.
Return(c) ==
    /\ calls[c].pc = "settled"
    /\ calls' = [calls EXCEPT ![c] = IdleCall]
    /\ UNCHANGED <<env, defaults, barVars, formVars>>

\* The steps of the call in slot c, with the backend's answers drawn from
\* statuses and bodies.
CallStep(c, statuses, bodies) ==
    \/ StartFeature(c)
    \/ StartHealth(c)
    \/ Tick(c)
    \/ Respond(c, statuses, bodies)
    \/ NetworkFail(c)
    \/ TimeoutAbort(c)
    \/ Return(c)

(***************************************************************************)
(* client/components/dashboard/Promptbar.tsx                               *)
(***************************************************************************)

\* All sequences over S of length lo..hi.
SeqsOf(S, lo, hi) == UNION { [1..n -> S] : n \in lo..hi }

\* Pathnames under the dashboard layout, as their segments.
Segments == {"upload", "documents", "settings"}
Pathnames == { <<"dashboard">> \o p : p \in SeqsOf(Segments, 0, MaxPath) }

QueryChars == {"a", "/"}
Queries == SeqsOf(QueryChars, 0, MaxQuery)

\* pathname.includes(word)
Includes(p, word) == \E i \in 1..Len(p) : p[i] = word

\* getPlaceholders()
GetPlaceholders(p) ==
    IF Includes(p, "upload") THEN <<"upload a document to store">>
    ELSE IF Includes(p, "documents") THEN <<"Ask about your documents">>
    ELSE << "upload a document or ask about your documents",
            "use / to navigate to documents or settings page" >>

\* hidden={query.length > 0}
Hidden(q) == Len(q) > 0

\* The effect of AnimatedPlaceholder: no interval when hidden or with at most
\* one placeholder, else an interval whose callback closes over placeholders.
NoInterval == [active |-> FALSE, length |-> 0]
Effect(hidden, placeholders) ==
    IF hidden \/ Len(placeholders) <= 1
    THEN NoInterval
    ELSE [active |-> TRUE, length |-> Len(placeholders)]

\* setIndex((prev) => (prev + 1) % placeholders.length)
NextIndex(prev, length) == (prev + 1) % length

\* Navigation: the layout keeps Promptbar mounted, pathname changes, the
\* component renders again and the effect runs again; index is kept.
Navigate ==
    /\ \E p \in Pathnames \ {pathname} :
         /\ pathname' = p
         /\ interval' = Effect(Hidden(query), GetPlaceholders(p))
    /\ UNCHANGED <<query, index, apiVars, formVars>>

\* onChange={(e) => setQuery(e.target.value)}
SetQuery ==
    /\ \E q \in Queries \ {query} :
         /\ query' = q
         /\ interval' = Effect(Hidden(q), GetPlaceholders(pathname))
    /\ UNCHANGED <<pathname, index, apiVars, formVars>>

\* clearSearch: rendered only while query is not empty.
ClearSearch ==
    /\ query # <<>>
    /\ query' = <<>>
    /\ interval' = Effect(Hidden(<<>>), GetPlaceholders(pathname))
    /\ UNCHANGED <<pathname, index, apiVars, formVars>>

\* The interval fires (every 3500 ms while it is set).
IntervalTick ==
    /\ interval.active
    /\ index' = NextIndex(index, interval.length)
    /\ UNCHANGED <<pathname, query, interval, apiVars, formVars>>

(***************************************************************************)
(* client/components/dashboard/Textarea.tsx                                *)
(***************************************************************************)

Chars == {" ", "a"}
Texts == SeqsOf(Chars, 0, MaxText)

\* Keys and values of a metadata row.
FieldChars == {" ", "k"}
Fields == SeqsOf(FieldChars, 0, 1)

EmptyRow == [key |-> <<>>, value |-> <<>>]

IsSpace(ch) == ch = " "

RECURSIVE TrimStart(_)
TrimStart(s) ==
    IF s # <<>> /\ IsSpace(Head(s)) THEN TrimStart(Tail(s)) ELSE s

RECURSIVE TrimEnd(_)
TrimEnd(s) ==
    IF s # <<>> /\ IsSpace(s[Len(s)]) THEN TrimEnd(SubSeq(s, 1, Len(s) - 1)) ELSE s

\* String.prototype.trim
Trim(s) == TrimEnd(TrimStart(s))

\* metadata.forEach(...): rows with a key and a value after trimming are set
\* on the object, a later row overwriting an earlier one with the same key.
RECURSIVE MetadataObject(_)
MetadataObject(rows) ==
    IF rows = <<>> THEN <<>>
    ELSE LET before == MetadataObject(SubSeq(rows, 1, Len(rows) - 1))
             item   == rows[Len(rows)]
         IN  IF Trim(item.key) # <<>> /\ Trim(item.value) # <<>>
             THEN [k \in DOMAIN before \cup {Trim(item.key)} |->
                     IF k = Trim(item.key) THEN Trim(item.value) ELSE before[k]]
             ELSE before

\* The payload of handleSubmit: trimmed text, and the metadata object or
\* undefined when it has no keys.
Payload(t, rows) ==
    [ text     |-> Trim(t),
      metadata |-> IF DOMAIN MetadataObject(rows) # {}
                   THEN SetTo(MetadataObject(rows)) ELSE Unset(<<>>) ]

NoAlert == ""

\* What handleSubmit does up to its await: the blank check, or the request.
SubmitEffect(t, rows, reqs) ==
    IF Trim(t) = <<>>
    THEN [alert |-> "Please enter some content", pending |-> reqs]
    ELSE [alert |-> NoAlert, pending |-> Append(reqs, Payload(t, rows))]

\* Variant with a fault: the form is reset whatever the outcome (the reset moved out of try).
AfterIngestAlwaysReset(outcome, t, rows) ==
    [ text |-> <<>>, metadata |-> <<EmptyRow>>,
      alert |-> IF outcome = "resolved"
                THEN "Document ingested successfully!"
                ELSE "Failed to ingest document. Please try again." ]

\* What handleSubmit does after its await, by the outcome of ingest.
AfterIngest(outcome, t, rows) ==
    IF outcome = "resolved"
    THEN [text |-> <<>>, metadata |-> <<EmptyRow>>,
          alert |-> "Document ingested successfully!"]
    ELSE [text |-> t, metadata |-> rows,
          alert |-> "Failed to ingest document. Please try again."]

RemoveAt(s, i) == SubSeq(s, 1, i - 1) \o SubSeq(s, i + 1, Len(s))

\* handleSubmit is called. The function has its own blank check; the submit
\* button's disabled attribute is not relied on.
HandleSubmit ==
    /\ Trim(text) # <<>> => Len(pending) < MaxPending
    /\ LET eff == SubmitEffect(text, metadata, pending)
       IN  /\ alert' = eff.alert
           /\ pending' = eff.pending
    /\ UNCHANGED <<text, metadata, apiVars, barVars>>

\* await ingest(payload) resolves or rejects, and handleSubmit continues.
IngestSettles ==
    /\ \E i \in 1..Len(pending), outcome \in {"resolved", "rejected"} :
         LET eff == AfterIngest(outcome, text, metadata)
         IN  /\ pending' = RemoveAt(pending, i)
             /\ text' = eff.text
             /\ metadata' = eff.metadata
             /\ alert' = eff.alert
    /\ UNCHANGED <<apiVars, barVars>>

\* onChange={(e) => setText(e.target.value)}
SetText ==
    /\ \E t \in Texts \ {text} : text' = t
    /\ alert' = NoAlert
    /\ UNCHANGED <<metadata, pending, apiVars, barVars>>

\* addMetadata
AddMetadata ==
    /\ Len(metadata) < MaxRows
    /\ metadata' = Append(metadata, EmptyRow)
    /\ alert' = NoAlert
    /\ UNCHANGED <<text, pending, apiVars, barVars>>

\* updateMetadata(index, field, value)
UpdateMetadata ==
    /\ \E i \in 1..Len(metadata), field \in {"key", "value"}, v \in Fields :
         /\ metadata[i][field] # v
         /\ metadata' = [metadata EXCEPT ![i][field] = v]
    /\ alert' = NoAlert
    /\ UNCHANGED <<text, pending, apiVars, barVars>>

\* removeMetadata(index); its button is disabled while there is one row.
RemoveMetadata ==
    /\ Len(metadata) # 1
    /\ \E i \in 1..Len(metadata) : metadata' = RemoveAt(metadata, i)
    /\ alert' = NoAlert
    /\ UNCHANGED <<text, pending, apiVars, barVars>>

(***************************************************************************)
(* Specifications                                                          *)
(***************************************************************************)

\* Values of the environment variables.
ApiKeys == {Unset(""), SetTo(""), SetTo("secret-key")}

Origins == {"http://host"}
PathTokens == {"/api", "/v1", "/x"}
Urls == { <<o>> \o p : o \in Origins, p \in SeqsOf(PathTokens, 0, MaxUrlLen - 1) }

\* The overrides the client is exercised with when the url is not the subject.
SomeBaseUrls ==
    { Unset(<<>>), SetTo(<<>>), SetTo(<<"http://host", "/api", "/v1">>) }
AllBaseUrls == {Unset(<<>>), SetTo(<<>>)} \cup { SetTo(u) : u \in Urls }

BarInit ==
    /\ pathname = <<"dashboard">>
    /\ query = <<>>
    /\ index = 0
    /\ interval = Effect(Hidden(<<>>), GetPlaceholders(<<"dashboard">>))

FormInit ==
    /\ text = <<>>
    /\ metadata = <<EmptyRow>>
    /\ pending = <<>>
    /\ alert = NoAlert

ApiInit(baseUrls, apiKeys) ==
    /\ env \in [baseUrl : baseUrls, apiKey : apiKeys]
    /\ defaults = CreateDefaults
    /\ calls = [c \in Calls |-> IdleCall]

\* The answers the concurrent calls are exercised with: a success and a
\* rejection, each with a body and without.
SomeStatuses == {200, 500}
SomeBodies   == {NullBody, ObjectBody(TRUE, "ok", FALSE)}

\* The api client under concurrent calls, in every interleaving.
Init == ApiInit(SomeBaseUrls, ApiKeys) /\ BarInit /\ FormInit
Next == \E c \in Calls : CallStep(c, SomeStatuses, SomeBodies)
Spec == Init /\ [][Next]_vars

\* The api client, one call after another, over every base URL, key and answer.
InitCall == ApiInit(AllBaseUrls, ApiKeys) /\ BarInit /\ FormInit
NextCall == CallStep(1, Statuses, Bodies)
SpecCall == InitCall /\ [][NextCall]_vars

\* The prompt bar.
InitBar ==
    /\ ApiInit({Unset(<<>>)}, {Unset("")}) /\ FormInit
    /\ pathname \in Pathnames
    /\ query = <<>>
    /\ index = 0
    /\ interval = Effect(Hidden(query), GetPlaceholders(pathname))
NextBar == Navigate \/ SetQuery \/ ClearSearch \/ IntervalTick
SpecBar == InitBar /\ [][NextBar]_vars

\* The ingest form.
InitForm == ApiInit({Unset(<<>>)}, {Unset("")}) /\ BarInit /\ FormInit
NextForm ==
    \/ HandleSubmit
    \/ IngestSettles
    \/ SetText
    \/ AddMetadata
    \/ UpdateMetadata
    \/ RemoveMetadata
SpecForm == InitForm /\ [][NextForm]_vars

(***************************************************************************)
(* Properties                                                              *)
(***************************************************************************)

\* The calls that have been made and not yet handed back.
Made == { c \in Calls : calls[c].pc # "idle" }
Failed == { c \in Calls : calls[c].raised.present }

\* The failure class the interceptor's log line stands for.
ClassOf(log) ==
    CASE log.msg = "Unauthorized: Invalid or missing API key" -> "Unauthorized"
      [] log.msg = "Rate limit exceeded" -> "RateLimited"
      [] log.msg = "API Error:" -> "ServerRejected"
      [] log.msg = "Network Error: Cannot reach backend. Is the API running?"
            -> "NetworkUnreachable"
      [] OTHER -> "Unclassified"

\* C1: every failure that reaches the response interceptor is rejected with
\* the error it received, status, body and code unchanged; it is never turned
\* into a resolved value or into another error.
C1_ErrorReRaised ==
    \A c \in Failed :
        /\ calls[c].pc = "settled"
        /\ calls[c].settle.kind = "rejected"
        /\ calls[c].settle.error = calls[c].raised
        /\ calls[c].settle.error.response.status = calls[c].raised.response.status
        /\ calls[c].settle.error.response.data = calls[c].raised.response.data
        /\ calls[c].settle.error.code = calls[c].raised.code

\* A 401 with a body has been rejected to the caller with status and body.
C1_Witness ==
    \E c \in Failed :
        /\ calls[c].raised.response.present
        /\ calls[c].raised.response.status = 401
        /\ calls[c].raised.response.data.kind = "object"
        /\ calls[c].settle = Rejected(calls[c].raised)

\* An API key is configured when the variable is set to a non-empty string
\* (an empty value configures no key).
KeyConfigured == env.apiKey.defined /\ env.apiKey.value # ""

\* C2: every request made is dispatched; with a key configured it carries
\* X-API-Key equal to the key, and without one the interceptor adds no
\* X-API-Key header (the header is what the caller passed, if anything).
C2_ApiKeyHeader ==
    \A c \in Made :
        /\ calls[c].sent >= 1
        /\ KeyConfigured =>
              calls[c].config.headers.xApiKey = Header(env.apiKey.value)
        /\ ~KeyConfigured =>
              calls[c].config.headers.xApiKey = calls[c].callerKey

\* A request is in flight with the configured key in place of a header of the
\* caller's own.
C2_Witness ==
    /\ KeyConfigured
    /\ \E c \in Made :
          /\ calls[c].pc = "inflight"
          /\ calls[c].callerKey.present
          /\ calls[c].config.headers.xApiKey = Header(env.apiKey.value)

\* Without a key a request is in flight with no X-API-Key header.
C2_WitnessNoKey ==
    /\ ~KeyConfigured
    /\ \E c \in Calls :
          /\ calls[c].pc = "inflight"
          /\ ~calls[c].config.headers.xApiKey.present

HealthSettled == { c \in Calls : calls[c].kind = "health" /\ calls[c].pc = "settled" }

\* The body is exactly { "status": "ok" }.
ExactlyStatusOk(data) ==
    data.kind = "object" /\ data.hasStatus /\ data.status = "ok" /\ ~data.extra

\* The body is an object whose status field is 'ok'.
StatusFieldOk(data) ==
    data.kind = "object" /\ data.hasStatus /\ data.status = "ok"

\* C3 as stated: checkApiHealth returns a boolean and never throws, and
\* returns true if and only if the probe was answered successfully with a
\* body that is exactly { "status": "ok" }.
C3_Original ==
    \A c \in HealthSettled :
        /\ calls[c].health.returned
        /\ ~calls[c].health.threw
        /\ calls[c].health.value <=>
              /\ calls[c].settle.kind = "fulfilled"
              /\ ExactlyStatusOk(calls[c].settle.response.data)

\* C3 amended: checkApiHealth returns a boolean and never throws, and returns
\* true if and only if the probe was answered successfully with an object
\* body whose status field is 'ok', whatever other fields the body has.
C3_HealthBoolean ==
    \A c \in HealthSettled :
        /\ calls[c].health.returned
        /\ ~calls[c].health.threw
        /\ calls[c].health.value <=>
              /\ calls[c].settle.kind = "fulfilled"
              /\ StatusFieldOk(calls[c].settle.response.data)

\* checkApiHealth has returned true for a body with more than a status field.
C3_Witness ==
    \E c \in HealthSettled :
        /\ calls[c].health.returned
        /\ calls[c].health.value
        /\ calls[c].settle.response.data.extra

\* checkApiHealth has returned false for a null body of a 200 response.
C3_WitnessNull ==
    \E c \in HealthSettled :
        /\ calls[c].settle.kind = "fulfilled"
        /\ calls[c].settle.response.data.kind = "null"
        /\ calls[c].health = Returns(FALSE)

EndsWith(s, suffix) ==
    /\ Len(s) >= Len(suffix)
    /\ SubSeq(s, Len(s) - Len(suffix) + 1, Len(s)) = suffix

\* s without its last n tokens.
DropLast(s, n) == SubSeq(s, 1, Len(s) - n)

\* C4 as stated: for a base URL that ends with the versioned path, the health
\* request uses the base URL with that suffix taken off its end and nothing
\* else changed, so it goes to <root>/health.
C4_HealthTargetsRoot ==
    \A c \in Made :
        (calls[c].kind = "health" /\ EndsWith(API_BASE_URL, VersionedPath)) =>
            /\ calls[c].config.baseURL = DropLast(API_BASE_URL, Len(VersionedPath))
            /\ Target(calls[c].config)
                 = DropLast(API_BASE_URL, Len(VersionedPath)) \o <<"/health">>

\* The class the claim gives a failure, from its shape alone.
ExpectedClass(error) ==
    IF error.response.present
    THEN IF error.response.status = 401 THEN "Unauthorized"
         ELSE IF error.response.status = 429 THEN "RateLimited"
         ELSE "ServerRejected"
    ELSE "NetworkUnreachable"

\* C5 as stated: every failure is classified, by its shape alone, as
\* Unauthorized (401), RateLimited (429), ServerRejected (another status, with
\* the body reported) or NetworkUnreachable (no response).
C5_Classified ==
    \A c \in Failed :
        /\ ClassOf(calls[c].logged) = ExpectedClass(calls[c].raised)
        /\ ClassOf(calls[c].logged) = "ServerRejected" =>
              calls[c].logged.data = calls[c].raised.response.data

\* C6: one request is sent for every call, whatever its outcome, and a failed
\* call is settled with its failure, not sent again.
C6_NoRetry ==
    /\ \A c \in Made : calls[c].sent = 1
    /\ \A c \in Failed :
          /\ calls[c].pc = "settled"
          /\ calls[c].settle.kind = "rejected"

\* A call answered with 429 has settled rejected after one request.
C6_Witness ==
    \E c \in Failed :
        /\ calls[c].raised.response.present
        /\ calls[c].raised.response.status = 429
        /\ calls[c].sent = 1
        /\ calls[c].settle.kind = "rejected"

\* C7: the shared instance's base URL and default headers are never changed,
\* and every call other than the health probe goes to the full configured
\* base URL, whatever health probes are in flight or have completed.
C7_OverrideScoped ==
    /\ defaults = CreateDefaults
    /\ \A c \in Made :
          calls[c].kind = "feature" =>
              /\ calls[c].config.baseURL = API_BASE_URL
              /\ Target(calls[c].config) = API_BASE_URL \o <<calls[c].config.url>>
              /\ calls[c].config.headers.contentType = Header("application/json")
              /\ calls[c].config.headers.accept = Header("application/json")

\* A feature call is dispatched while a health probe with a different base
\* URL is still in flight.
C7_Witness ==
    \E h \in Made, f \in Made :
        /\ calls[h].kind = "health"
        /\ calls[h].pc = "inflight"
        /\ calls[h].config.baseURL # API_BASE_URL
        /\ calls[f].kind = "feature"
        /\ calls[f].elapsed < calls[h].elapsed

\* The request of the call was aborted by the timeout.
TimedOut(call) ==
    call.raised.present /\ ~call.raised.response.present /\ call.raised.code = "ECONNABORTED"

\* C8 as stated, for the calls that have settled: a call other than the
\* health probe has resolved with a payload or been rejected with a
\* classified error, a request that reached the timeout has been rejected as
\* a NetworkUnreachable failure, and the health probe has returned a boolean.
C8_SettledClassified ==
    \A c \in Calls :
        calls[c].pc = "settled" =>
            /\ calls[c].kind = "feature" =>
                  \/ calls[c].settle.kind = "fulfilled"
                  \/ /\ calls[c].settle.kind = "rejected"
                     /\ ClassOf(calls[c].logged) # "Unclassified"
            /\ TimedOut(calls[c]) =>
                  /\ calls[c].settle.kind = "rejected"
                  /\ ~calls[c].settle.error.response.present
                  /\ ClassOf(calls[c].logged) = "NetworkUnreachable"
            /\ calls[c].kind = "health" => calls[c].health.returned

\* C9 as stated: the stored index is a valid index of the current
\* placeholder list (0 <= index < placeholders.length).
C9_IndexValid ==
    /\ 0 <= index
    /\ index < Len(GetPlaceholders(pathname))

SuccessAlert == "Document ingested successfully!"
FailureAlert == "Failed to ingest document. Please try again."
BlankAlert   == "Please enter some content"

\* C10: handleSubmit sends an ingest request only for a text that is not
\* blank after trimming; the step that ends a resolved request resets text
\* and metadata; the step that ends a rejected request, the blank step and
\* the sending step leave text and metadata as they are, and the blank step
\* sends nothing.
C10_ResetIffResolved ==
    [][ /\ Len(pending') > Len(pending) =>
              /\ Trim(text) # <<>>
              /\ pending'[Len(pending')].text = Trim(text)
              /\ UNCHANGED <<text, metadata>>
        /\ Len(pending') < Len(pending) =>
              \/ /\ alert' = SuccessAlert
                 /\ text' = <<>>
                 /\ metadata' = <<EmptyRow>>
              \/ /\ alert' = FailureAlert
                 /\ UNCHANGED <<text, metadata>>
        /\ (alert' = BlankAlert /\ alert # BlankAlert) =>
              /\ Trim(text) = <<>>
              /\ UNCHANGED <<text, metadata, pending>>
        /\ (alert' = SuccessAlert /\ alert # SuccessAlert) =>
              Len(pending') < Len(pending)
        /\ (alert' = FailureAlert /\ alert # FailureAlert) =>
              Len(pending') < Len(pending)
      ]_vars

\* An ingest request was rejected after the user had typed text and a
\* metadata pair, and both are still in the form.
C10_Witness ==
    /\ alert = FailureAlert
    /\ Trim(text) # <<>>
    /\ DOMAIN MetadataObject(metadata) # {}

\* An ingest request resolved and the form is reset.
C10_WitnessReset ==
    /\ alert = SuccessAlert
    /\ text = <<>>
    /\ metadata = <<EmptyRow>>

====
